---- MODULE Spec2Model ----
(***************************************************************************)
(* Model of the XML-editor pipeline: the timecode engine, the multicam     *)
(* sync coordinator, the script generator's selection filter, the          *)
(* Premiere XML builders and run_pipeline.                                 *)
(*                                                                         *)
(* Python floats are IEEE-754 binary64.  The code truncates products of    *)
(* floats with int(), so the rounding of every float operation decides     *)
(* frame numbers.  Floats are therefore modelled exactly: a float is       *)
(* sign * m * 2^e with m an odd natural number of at most 53 bits, kept as *)
(* a little-endian sequence of 15-bit limbs, and every operation rounds    *)
(* to nearest, ties to even.                                               *)
(***************************************************************************)
EXTENDS Integers, Sequences, FiniteSets, TLC

(***************************************************************************)
(* Natural numbers of arbitrary size (limbs, least significant first).     *)
(***************************************************************************)
LimbBits == 15
Base == 32768
MantBits == 53
DivGuard == 75

Pow2(k) == 2 ^ k

RECURSIVE BNNorm(_)
BNNorm(a) ==
    IF a = <<>> THEN <<>>
    ELSE IF a[Len(a)] = 0 THEN BNNorm(SubSeq(a, 1, Len(a) - 1)) ELSE a

RECURSIVE BNFromNat(_)
BNFromNat(n) == IF n = 0 THEN <<>> ELSE <<n % Base>> \o BNFromNat(n \div Base)

RECURSIVE BNToNat(_)
BNToNat(a) == IF a = <<>> THEN 0 ELSE a[1] + Base * BNToNat(Tail(a))

Limb(a, i) == IF i <= Len(a) THEN a[i] ELSE 0

RECURSIVE BNAddAt(_, _, _, _)
BNAddAt(a, b, i, c) ==
    IF i > Len(a) /\ i > Len(b)
    THEN (IF c = 0 THEN <<>> ELSE <<c>>)
    ELSE LET s == Limb(a, i) + Limb(b, i) + c
         IN  <<s % Base>> \o BNAddAt(a, b, i + 1, s \div Base)

BNAdd(a, b) == BNAddAt(a, b, 1, 0)

RECURSIVE BNSubAt(_, _, _, _)
BNSubAt(a, b, i, borrow) ==
    IF i > Len(a) THEN <<>>
    ELSE LET d == Limb(a, i) - Limb(b, i) - borrow
         IN  IF d < 0 THEN <<d + Base>> \o BNSubAt(a, b, i + 1, 1)
                      ELSE <<d>> \o BNSubAt(a, b, i + 1, 0)

\* a - b for a >= b
BNSub(a, b) == BNNorm(BNSubAt(a, b, 1, 0))

RECURSIVE BNCmpAt(_, _, _)
BNCmpAt(a, b, i) ==
    IF i = 0 THEN 0
    ELSE IF a[i] < b[i] THEN -1
    ELSE IF a[i] > b[i] THEN 1
    ELSE BNCmpAt(a, b, i - 1)

\* -1, 0, 1 for a < b, a = b, a > b (both normalised)
BNCmp(a, b) ==
    IF Len(a) < Len(b) THEN -1
    ELSE IF Len(a) > Len(b) THEN 1
    ELSE BNCmpAt(a, b, Len(a))

RECURSIVE BNMulSmallAt(_, _, _, _)
BNMulSmallAt(a, n, i, c) ==
    IF i > Len(a) THEN (IF c = 0 THEN <<>> ELSE <<c>>)
    ELSE LET p == a[i] * n + c
         IN  <<p % Base>> \o BNMulSmallAt(a, n, i + 1, p \div Base)

\* a * n for 0 <= n < Base
BNMulSmall(a, n) == IF n = 0 THEN <<>> ELSE BNMulSmallAt(a, n, 1, 0)

RECURSIVE BNDivSmallAt(_, _, _, _)
BNDivSmallAt(a, n, i, r) ==
    IF i = 0 THEN [q |-> <<>>, r |-> r]
    ELSE LET cur  == r * Base + a[i]
             rest == BNDivSmallAt(a, n, i - 1, cur % n)
         IN  [q |-> rest.q \o <<cur \div n>>, r |-> rest.r]

\* quotient and remainder of a by n, 0 < n < Base
BNDivSmall(a, n) ==
    LET d == BNDivSmallAt(a, n, Len(a), 0) IN [q |-> BNNorm(d.q), r |-> d.r]

BNShl(a, s) ==
    IF a = <<>> THEN <<>>
    ELSE [i \in 1..(s \div LimbBits) |-> 0] \o BNMulSmall(a, Pow2(s % LimbBits))

BNShr(a, s) ==
    IF s \div LimbBits >= Len(a) THEN <<>>
    ELSE BNDivSmall(SubSeq(a, (s \div LimbBits) + 1, Len(a)), Pow2(s % LimbBits)).q

\* a mod 2^s
BNLow(a, s) == BNSub(a, BNShl(BNShr(a, s), s))

\* bit k of a, k >= 0
BNBit(a, k) == (Limb(a, (k \div LimbBits) + 1) \div Pow2(k % LimbBits)) % 2

RECURSIVE SmallBitLen(_)
SmallBitLen(n) == IF n = 0 THEN 0 ELSE 1 + SmallBitLen(n \div 2)

BNBitLen(a) ==
    IF a = <<>> THEN 0 ELSE LimbBits * (Len(a) - 1) + SmallBitLen(a[Len(a)])

RECURSIVE BNTrailingZeros(_, _)
BNTrailingZeros(a, k) == IF BNBit(a, k) = 1 THEN k ELSE BNTrailingZeros(a, k + 1)

(***************************************************************************)
(* binary64 arithmetic, round to nearest, ties to even.                    *)
(***************************************************************************)
FZero == [sign |-> 1, m |-> <<>>, e |-> 0]

FIsZero(x) == x.m = <<>>

\* the canonical float of sign * m * 2^e, for m of at most 53 significant bits
FCanon(sign, m, e) ==
    IF m = <<>> THEN FZero
    ELSE LET tz == BNTrailingZeros(m, 0)
         IN  [sign |-> sign, m |-> BNShr(m, tz), e |-> e + tz]

\* round sign * (m + sticky) * 2^e, where sticky stands for a positive amount
\* below one unit of m, to 53 bits
FRound(sign, m, e, sticky) ==
    LET len == BNBitLen(m) IN
    IF len <= MantBits THEN FCanon(sign, m, e)
    ELSE LET s    == len - MantBits
             q    == BNShr(m, s)
             rb   == BNBit(m, s - 1)
             rest == sticky \/ BNLow(m, s - 1) # <<>>
             up   == rb = 1 /\ (rest \/ BNBit(q, 0) = 1)
         IN  FCanon(sign, IF up THEN BNAdd(q, <<1>>) ELSE q, e + s)

FFromInt(n) ==
    IF n >= 0 THEN FCanon(1, BNFromNat(n), 0) ELSE FCanon(-1, BNFromNat(-n), 0)

FNeg(x) == IF FIsZero(x) THEN x ELSE [x EXCEPT !.sign = -x.sign]

\* the exact value x + y as an unrounded triple
FExactSum(x, y) ==
    IF FIsZero(x) THEN y
    ELSE IF FIsZero(y) THEN x
    ELSE LET e0 == IF x.e < y.e THEN x.e ELSE y.e
             mx == BNShl(x.m, x.e - e0)
             my == BNShl(y.m, y.e - e0)
             c  == BNCmp(mx, my)
         IN  IF x.sign = y.sign THEN [sign |-> x.sign, m |-> BNAdd(mx, my), e |-> e0]
             ELSE IF c = 0 THEN FZero
             ELSE IF c > 0 THEN [sign |-> x.sign, m |-> BNSub(mx, my), e |-> e0]
             ELSE [sign |-> y.sign, m |-> BNSub(my, mx), e |-> e0]

FAdd(x, y) == LET s == FExactSum(x, y) IN FRound(s.sign, s.m, s.e, FALSE)

FSub(x, y) == FAdd(x, FNeg(y))

\* x < y
FLess(x, y) ==
    LET d == FExactSum(x, FNeg(y)) IN d.m # <<>> /\ d.sign = -1

\* x * n for an integer 0 < n < Base
FMulInt(x, n) == FRound(x.sign, BNMulSmall(x.m, n), x.e, FALSE)

\* x / n for an integer 0 < n < Base
FDivInt(x, n) ==
    IF FIsZero(x) THEN FZero
    ELSE LET d == BNDivSmall(BNShl(x.m, DivGuard), n)
         IN  FRound(x.sign, d.q, x.e - DivGuard, d.r # 0)

\* int(x): truncation towards zero
FTrunc(x) ==
    IF x.e >= 0 THEN x.sign * BNToNat(BNShl(x.m, x.e))
    ELSE x.sign * BNToNat(BNShr(x.m, -x.e))

\* x % n for x >= 0 and an integer 0 < n < Base (exact, as fmod is)
FModInt(x, n) ==
    IF FIsZero(x) THEN FZero
    ELSE IF x.e >= 0 THEN FFromInt(BNDivSmall(BNShl(x.m, x.e), n).r)
    ELSE LET k  == -x.e
             hi == BNDivSmall(BNShr(x.m, k), n).r
         IN  FCanon(1, BNAdd(BNShl(BNFromNat(hi), k), BNLow(x.m, k)), x.e)

\* int(x // n) for x >= 0 and an integer 0 < n < Base
FFloorDivInt(x, n) == FTrunc(x) \div n


(***************************************************************************)
(* Strings.  A character is a one-character string; a text is kept as the  *)
(* sequence of parts str.split(':') returns, each part a sequence of       *)
(* characters.  None is a separate value.                                  *)
(***************************************************************************)
Digits == <<"0", "1", "2", "3", "4", "5", "6", "7", "8", "9">>

IsDigit(c) == \E d \in 1..10 : Digits[d] = c

DigitVal(c) == (CHOOSE d \in 1..10 : Digits[d] = c) - 1

NoneValue == [none |-> TRUE, parts |-> <<>>]

Str(parts) == [none |-> FALSE, parts |-> parts]

EmptyStr == Str(<< <<>> >>)

\* Python truthiness of an Optional[str]
Truthy(v) == ~v.none /\ v # EmptyStr

RECURSIVE DigitsValue(_)
DigitsValue(p) ==
    IF p = <<>> THEN 0 ELSE DigitsValue(SubSeq(p, 1, Len(p) - 1)) * 10 + DigitVal(p[Len(p)])

\* int(part): an optional sign and at least one digit, anything else raises
IntParses(p) ==
    LET body == IF p # <<>> /\ p[1] \in {"-", "+"} THEN Tail(p) ELSE p
    IN  body # <<>> /\ \A i \in 1..Len(body) : IsDigit(body[i])

IntValue(p) ==
    IF p[1] = "-" THEN -DigitsValue(Tail(p))
    ELSE IF p[1] = "+" THEN DigitsValue(Tail(p))
    ELSE DigitsValue(p)

RECURSIVE NatDigits(_)
NatDigits(n) ==
    IF n < 10 THEN <<Digits[n + 1]>> ELSE NatDigits(n \div 10) \o <<Digits[(n % 10) + 1]>>

\* f"{n:02d}"
Format02d(n) ==
    LET raw == IF n < 0 THEN <<"-">> \o NatDigits(-n) ELSE NatDigits(n)
    IN  IF Len(raw) >= 2 THEN raw
        ELSE IF n < 0 THEN <<"-", "0">> \o Tail(raw) ELSE <<"0">> \o raw

(***************************************************************************)
(* Timecode engine (timecode_utils.py).                                    *)
(***************************************************************************)
\* the frame rate timecode_to_seconds divides by
TimecodeFps == 24

timecode_to_seconds(timecode) ==
    IF timecode.none THEN FZero
    ELSE LET parts == timecode.parts IN
         IF Len(parts) # 4 THEN FZero
         ELSE IF \E i \in 1..4 : ~IntParses(parts[i]) THEN FZero
         ELSE LET hours   == IntValue(parts[1])
                  minutes == IntValue(parts[2])
                  seconds == IntValue(parts[3])
                  frames  == IntValue(parts[4])
              IN  FAdd(FFromInt(hours * 3600 + minutes * 60 + seconds),
                       FDivInt(FFromInt(frames), TimecodeFps))

\* for seconds >= 0 and an integer-valued fps
seconds_to_timecode(seconds, fps) ==
    LET hours   == FFloorDivInt(seconds, 3600)
        minutes == FFloorDivInt(FModInt(seconds, 3600), 60)
        secs    == FTrunc(FModInt(seconds, 60))
        frames  == FTrunc(FMulInt(FModInt(seconds, 1), fps))
    IN  Str(<<Format02d(hours), Format02d(minutes), Format02d(secs), Format02d(frames)>>)

(***************************************************************************)
(* File names are sequences of characters; Path objects of one folder sort *)
(* by name, character by character in code-point order.                    *)
(***************************************************************************)
Alphabet ==
    <<"-", ".", "0", "1", "2", "3", "4", "5", "6", "7", "8", "9",
      "A", "B", "C", "D", "E", "F", "G", "H", "I", "J", "K", "L", "M",
      "N", "O", "P", "Q", "R", "S", "T", "U", "V", "W", "X", "Y", "Z", "_",
      "a", "b", "c", "d", "e", "f", "g", "h", "i", "j", "k", "l", "m",
      "n", "o", "p", "q", "r", "s", "t", "u", "v", "w", "x", "y", "z">>

CharRank(c) == CHOOSE i \in 1..Len(Alphabet) : Alphabet[i] = c

\* str.upper() on one character
UpperChar(c) == IF CharRank(c) >= 40 THEN Alphabet[CharRank(c) - 27] ELSE c

Upper(t) == [i \in 1..Len(t) |-> UpperChar(t[i])]

RECURSIVE LexLess(_, _)
LexLess(a, b) ==
    IF b = <<>> THEN FALSE
    ELSE IF a = <<>> THEN TRUE
    ELSE IF a[1] # b[1] THEN CharRank(a[1]) < CharRank(b[1])
    ELSE LexLess(Tail(a), Tail(b))

EndsWith(name, suffix) ==
    /\ Len(name) >= Len(suffix)
    /\ SubSeq(name, Len(name) - Len(suffix) + 1, Len(name)) = suffix

\* sorted(files): the files of a set in ascending name order
RECURSIVE Sorted(_)
Sorted(files) ==
    IF files = {} THEN <<>>
    ELSE LET first == CHOOSE f \in files : \A g \in files \ {f} : LexLess(f, g)
         IN  <<first>> \o Sorted(files \ {first})

\* folder.glob("*" + ext) and folder.glob("*" + ext.upper()) over a list of
\* extensions, as a set of names
GlobExtensions(files, exts) ==
    { f \in files : \E i \in 1..Len(exts) : EndsWith(f, exts[i]) \/ EndsWith(f, Upper(exts[i])) }

SyncExtensions ==
    << <<".", "m", "p", "4">>, <<".", "m", "o", "v">>,
       <<".", "m", "x", "f">>, <<".", "a", "v", "i">> >>

NoFile == <<>>

(***************************************************************************)
(* Timecode acquisition (get_video_timecode, creation_time_to_timecode).   *)
(* ffprobe is an external program: each of the three invocations either    *)
(* exits non-zero (CalledProcessError) or prints a text; when the program  *)
(* is not installed subprocess.run raises FileNotFoundError, which         *)
(* get_video_timecode does not catch.                                      *)
(***************************************************************************)
ProbeFail == [fail |-> TRUE, out |-> EmptyStr]

ProbeOut(text) == [fail |-> FALSE, out |-> text]

NotAvailable == Str(<< <<"N", "/", "A">> >>)

TwoDigits(p) == Len(p) >= 2 /\ IsDigit(p[1]) /\ IsDigit(p[2])

\* datetime.fromisoformat accepts "YYYY-MM-DDTHH:MM:SS" with an optional
\* fraction and the "+00:00" the code puts in place of "Z"
IsoParses(text) ==
    /\ ~text.none
    /\ Len(text.parts) = 3
    /\ LET p1 == text.parts[1]
           p2 == text.parts[2]
           p3 == text.parts[3]
       IN  /\ Len(p1) = 13
           /\ \A i \in {1, 2, 3, 4, 6, 7, 9, 10, 12, 13} : IsDigit(p1[i])
           /\ p1[5] = "-" /\ p1[8] = "-"
           /\ DigitsValue(SubSeq(p1, 12, 13)) < 24
           /\ Len(p2) = 2 /\ TwoDigits(p2) /\ DigitsValue(p2) < 60
           /\ TwoDigits(p3) /\ DigitsValue(SubSeq(p3, 1, 2)) < 60
           /\ SubSeq(p3, 3, Len(p3)) \in
                 { <<>>, <<"Z">>,
                   <<".", "0", "0", "0", "0", "0", "0">>,
                   <<".", "0", "0", "0", "0", "0", "0", "Z">> }

ZeroTimecode == Str(<< <<"0", "0">>, <<"0", "0">>, <<"0", "0">>, <<"0", "0">> >>)

creation_time_to_timecode(creation_time) ==
    IF IsoParses(creation_time)
    THEN Str(<< Format02d(DigitsValue(SubSeq(creation_time.parts[1], 12, 13))),
                Format02d(DigitsValue(creation_time.parts[2])),
                Format02d(DigitsValue(SubSeq(creation_time.parts[3], 1, 2))),
                <<"0", "0">> >>)
    ELSE ZeroTimecode

\* the loop of get_video_timecode from method i on
RECURSIVE TimecodeFromMethod(_, _)
TimecodeFromMethod(profile, i) ==
    IF i > 3 THEN NoneValue
    ELSE IF profile[i].fail THEN TimecodeFromMethod(profile, i + 1)
    ELSE IF Truthy(profile[i].out) /\ profile[i].out # NotAvailable
         THEN (IF i = 3 THEN creation_time_to_timecode(profile[i].out) ELSE profile[i].out)
         ELSE TimecodeFromMethod(profile, i + 1)

\* the number of ffprobe invocations of that loop from method i on
RECURSIVE MethodsTried(_, _)
MethodsTried(profile, i) ==
    IF i > 3 THEN 0
    ELSE IF ~profile[i].fail /\ Truthy(profile[i].out) /\ profile[i].out # NotAvailable THEN 1
    ELSE 1 + MethodsTried(profile, i + 1)

get_video_timecode(profile, installed) ==
    IF ~installed THEN [raised |-> TRUE, value |-> NoneValue, tried |-> 1]
    ELSE [raised |-> FALSE, value |-> TimecodeFromMethod(profile, 1),
          tried |-> MethodsTried(profile, 1)]

(***************************************************************************)
(* Sync coordinator (calculate_sync_offsets, get_multicam_sync_data).      *)
(***************************************************************************)
TwoAndAHalf == FDivInt(FFromInt(5), 2)

FMin(S) == CHOOSE x \in S : \A y \in S : ~FLess(y, x)

AngleSeconds(angle_timecodes) ==
    [a \in DOMAIN angle_timecodes |->
        IF Truthy(angle_timecodes[a]) THEN timecode_to_seconds(angle_timecodes[a]) ELSE FZero]

\* a calculate_sync_offsets that anchors at the latest angle
EarliestTime_Latest(angle_seconds) ==
    CHOOSE x \in {angle_seconds[a] : a \in DOMAIN angle_seconds} :
        \A a \in DOMAIN angle_seconds : ~FLess(x, angle_seconds[a])

EarliestTime(angle_seconds) == FMin({angle_seconds[a] : a \in DOMAIN angle_seconds})

\* a calculate_sync_offsets that measures back from the latest angle
calculate_sync_offsets_FromLatest(angle_timecodes) ==
    IF DOMAIN angle_timecodes = {} THEN <<>>
    ELSE LET angle_seconds == AngleSeconds(angle_timecodes)
             latest_time   == EarliestTime_Latest(angle_seconds)
         IN  [a \in DOMAIN angle_seconds |-> FSub(latest_time, angle_seconds[a])]

calculate_sync_offsets(angle_timecodes) ==
    IF DOMAIN angle_timecodes = {} THEN <<>>
    ELSE LET angle_seconds == AngleSeconds(angle_timecodes)
             earliest_time == EarliestTime(angle_seconds)
         IN  [a \in DOMAIN angle_seconds |-> FSub(angle_seconds[a], earliest_time)]

SyncCandidates(files) == GlobExtensions(files, SyncExtensions)

\* one iteration of the loop over camera_folders
SyncEntry(files, profile, installed) ==
    IF SyncCandidates(files) = {}
    THEN [raised |-> FALSE,
          entry |-> [timecode |-> NoneValue, first_file |-> NoFile, offset |-> FZero]]
    ELSE LET first_file == Sorted(SyncCandidates(files))[1]
             timecode   == get_video_timecode(profile, installed)
         IN  [raised |-> timecode.raised,
              entry |-> [timecode |-> timecode.value, first_file |-> first_file,
                         offset |-> FZero]]

SeqRange(q) == {q[i] : i \in 1..Len(q)}

get_multicam_sync_data(folders, files, profiles, installed) ==
    LET angles  == SeqRange(folders)
        entries == [a \in angles |-> SyncEntry(files[a], profiles[a], installed)]
    IN  IF \E a \in angles : entries[a].raised
        THEN [status |-> "raised", data |-> <<>>, offsets |-> <<>>]
        ELSE LET angle_timecodes == [a \in angles |-> entries[a].entry.timecode]
                 offsets         == calculate_sync_offsets(angle_timecodes)
             IN  [status |-> "returned",
                  data |-> [a \in angles |->
                              [entries[a].entry EXCEPT
                                 !.offset = IF a \in DOMAIN offsets THEN offsets[a] ELSE FZero]],
                  offsets |-> offsets]

(***************************************************************************)
(* Premiere XML builders (xml_builder.py).  A document is kept as its      *)
(* variable content: the media-bin entries, the clip items of the angle    *)
(* tracks of the "Multicam Source" sequence, and the clip items of the     *)
(* program track; everything else in the text is fixed.                    *)
(***************************************************************************)
FrameRate == 24

PlaceholderFrames == 72000

\* int(x * 24)
Frames(x) == FTrunc(FMulInt(x, FrameRate))

\* list({...}): the elements of a set in the iteration order of this
\* interpreter process; str hashes are salted per process, hash_order lists
\* every name in the order this process's salt puts them
RECURSIVE SelectSeq2(_, _)
SelectSeq2(q, S) ==
    IF q = <<>> THEN <<>>
    ELSE (IF q[1] \in S THEN <<q[1]>> ELSE <<>>) \o SelectSeq2(Tail(q), S)

ListOfSet(S, hash_order) == SelectSeq2(hash_order, S)

IndexOf(q, x) == CHOOSE i \in 1..Len(q) : q[i] = x

\* A path is [anchor, parts]: anchor "" for a relative path, "/" for a
\* POSIX root, "C:\" for a Windows drive root.  The host decides the
\* separator str() writes and the directory absolute() starts from.
HostSep(host) == IF host = "windows" THEN "\\" ELSE "/"

Cwd(host) ==
    IF host = "windows" THEN [anchor |-> "C:\\", parts |-> << <<"w", "o", "r", "k">> >>]
    ELSE [anchor |-> "/", parts |-> << <<"w", "o", "r", "k">> >>]

\* Path(dir) / name
Join(dir, name) == [dir EXCEPT !.parts = Append(@, name)]

\* path.absolute()
Absolute(path, host) ==
    IF path.anchor # "" THEN path
    ELSE [anchor |-> Cwd(host).anchor, parts |-> Cwd(host).parts \o path.parts]

RECURSIVE JoinParts(_, _)
JoinParts(parts, sep) ==
    IF parts = <<>> THEN <<>>
    ELSE IF Len(parts) = 1 THEN parts[1]
    ELSE parts[1] \o <<sep>> \o JoinParts(Tail(parts), sep)

\* str(path), one character per element
PathStr(path, host) ==
    (IF path.anchor = "" THEN <<>>
     ELSE IF path.anchor = "/" THEN <<"/">>
     ELSE <<"C", ":", "\\">>) \o JoinParts(path.parts, HostSep(host))

\* text.replace("\\", "/")
ReplaceBackslash(text) == [i \in 1..Len(text) |-> IF text[i] = "\\" THEN "/" ELSE text[i]]

UrlPrefix == <<"f", "i", "l", "e", ":", "/", "/", "l", "o", "c", "a", "l", "h", "o", "s", "t", "/">>

\* file://localhost/ + str(video_path.absolute()).replace("\\", "/")
PathUrl(dir, name, host) ==
    UrlPrefix \o ReplaceBackslash(PathStr(Absolute(Join(dir, name), host), host))

\* a bin entry that does not take over the id it is given
BinEntry_FirstId(id, dir, name, host) ==
    [id |-> 1, name |-> name, pathurl |-> PathUrl(dir, name, host)]

BinEntry(id, dir, name, host) ==
    [id |-> id, name |-> name, pathurl |-> PathUrl(dir, name, host)]

\* a clip whose end is taken from the cursor after the segment
TimelineEnd_FromCursor(timeline_start, duration_frames, timeline_pos, seg) ==
    Frames(FAdd(timeline_pos, seg.duration))

\* timeline_end = timeline_start + duration_frames
TimelineEnd(timeline_start, duration_frames, timeline_pos, seg) ==
    timeline_start + duration_frames

\* one program-track clip item of _generate_premiere_xml
ProgramClip(i, seg, timeline_pos, file_id) ==
    LET start_frame     == Frames(seg.start_time)
        end_frame       == Frames(seg.end_time)
        duration_frames == end_frame - start_frame
        timeline_start  == Frames(timeline_pos)
        timeline_end    == TimelineEnd(timeline_start, duration_frames, timeline_pos, seg)
    IN  [id |-> i, name |-> seg.source_video, duration |-> duration_frames,
         start |-> timeline_start, end |-> timeline_end,
         in |-> start_frame, out |-> end_frame,
         file |-> file_id, trackindex |-> 0]

\* the loop over segments of _generate_premiere_xml from segment i on
RECURSIVE ProgramTrack(_, _, _, _)
ProgramTrack(segments, i, timeline_pos, video_files) ==
    IF i > Len(segments) THEN <<>>
    ELSE <<ProgramClip(i, segments[i], timeline_pos,
                       IndexOf(video_files, segments[i].source_video))>>
         \o ProgramTrack(segments, i + 1, FAdd(timeline_pos, segments[i].duration), video_files)

_generate_premiere_xml(segments, video_dir, hash_order, host) ==
    LET video_files ==
            ListOfSet({segments[i].source_video : i \in 1..Len(segments)}, hash_order)
    IN  [bin     |-> [i \in 1..Len(video_files) |-> BinEntry(i, video_dir, video_files[i], host)],
         tracks  |-> <<>>,
         program |-> ProgramTrack(segments, 1, FZero, video_files)]

XmlExtensions ==
    << <<".", "m", "p", "4">>, <<".", "m", "o", "v">>, <<".", "m", "x", "f">>,
       <<".", "a", "v", "i">>, <<".", "m", "k", "v">> >>

FileKey(angle_name, name) == <<angle_name, "_">> \o name

\* all_video_files[file_key] = info: a dict keeps the position of the first
\* insertion of a key and the value of the last
DictPut(d, entry) ==
    IF \E k \in 1..Len(d) : d[k].key = entry.key
    THEN [k \in 1..Len(d) |-> IF d[k].key = entry.key THEN entry ELSE d[k]]
    ELSE Append(d, entry)

\* camera_folders[angle_name]: the folder the angle's footage is in
FolderPath(angle_name) == [anchor |-> "", parts |-> << <<"f", "o", "o", "t", "a", "g", "e">>, <<angle_name>> >>]

RECURSIVE CollectFiles(_, _, _, _, _)
CollectFiles(d, angle_name, dir, names, file_counter) ==
    IF names = <<>> THEN d
    ELSE CollectFiles(DictPut(d, [key |-> FileKey(angle_name, names[1]), name |-> names[1],
                                  dir |-> dir, angle |-> angle_name, id |-> file_counter]),
                      angle_name, dir, Tail(names), file_counter + 1)

\* the loop over camera_folders that fills all_video_files, from angle a on
RECURSIVE CollectAngles(_, _, _, _, _)
CollectAngles(d, folders, files, a, file_counter) ==
    IF a > Len(folders) THEN d
    ELSE LET names == Sorted(GlobExtensions(files[folders[a]], XmlExtensions))
         IN  CollectAngles(CollectFiles(d, folders[a], FolderPath(folders[a]), names, file_counter),
                           folders, files, a + 1, file_counter + Len(names))

AllVideoFiles(folders, files) == CollectAngles(<<>>, folders, files, 1, 1)

\* seg['source_video'] in file_key
Contains(text, sub) ==
    \E k \in 1..(Len(text) - Len(sub) + 1) : SubSeq(text, k, k + Len(sub) - 1) = sub

\* the clip items of one angle's track of the "Multicam Source" sequence
RECURSIVE AngleTrack(_, _, _)
AngleTrack(angle_name, infos, timeline_pos) ==
    IF infos = <<>> THEN <<>>
    ELSE <<[id |-> infos[1].id, name |-> infos[1].name, duration |-> PlaceholderFrames,
            start |-> timeline_pos, end |-> timeline_pos + PlaceholderFrames,
            in |-> 0, out |-> PlaceholderFrames,
            file |-> infos[1].id, trackindex |-> 0]>>
         \o AngleTrack(angle_name, Tail(infos), timeline_pos + PlaceholderFrames)

\* sorted(angle_files, key=name): a stable sort of the angle's entries
RECURSIVE SortedByName(_)
SortedByName(infos) ==
    IF infos = <<>> THEN <<>>
    ELSE LET k == CHOOSE k \in 1..Len(infos) :
                     /\ \A j \in 1..Len(infos) : ~LexLess(infos[j].name, infos[k].name)
                     /\ \A j \in 1..(k - 1) : infos[j].name # infos[k].name
         IN  <<infos[k]>> \o SortedByName(SubSeq(infos, 1, k - 1) \o SubSeq(infos, k + 1, Len(infos)))

EntriesOfAngle(all_video_files, angle_name) ==
    SelectSeq(all_video_files, LAMBDA f : f.angle = angle_name)

SyncOffset(sync_data, angle_name) ==
    IF angle_name \in DOMAIN sync_data THEN sync_data[angle_name].offset ELSE FZero

\* a lookup that takes the first entry of any angle whose key contains
\* source_video
SourceFile_AnyAngle(all_video_files, seg) ==
    LET hits == { k \in 1..Len(all_video_files) :
                    Contains(all_video_files[k].key, seg.source_video) }
    IN  IF hits = {} THEN 0 ELSE CHOOSE k \in hits : \A j \in hits : k <= j

\* the file of a segment: the first entry of its angle whose key contains
\* source_video; 0 when there is none
SourceFile(all_video_files, seg) ==
    LET hits == { k \in 1..Len(all_video_files) :
                    /\ all_video_files[k].angle = seg.camera_angle
                    /\ Contains(all_video_files[k].key, seg.source_video) }
    IN  IF hits = {} THEN 0 ELSE CHOOSE k \in hits : \A j \in hits : k <= j

\* one program-track clip item of _generate_multicam_premiere_xml
MulticamProgramClip(i, seg, timeline_pos, file_id, angle_index) ==
    LET start_frame     == Frames(seg.start_time)
        end_frame       == Frames(seg.end_time)
        duration_frames == end_frame - start_frame
        timeline_start  == Frames(timeline_pos)
        timeline_end    == timeline_start + duration_frames
    IN  [id |-> i, name |-> seg.source_video, duration |-> duration_frames,
         start |-> timeline_start, end |-> timeline_end,
         in |-> start_frame, out |-> end_frame,
         file |-> file_id, trackindex |-> angle_index]

\* the loop over segments of _generate_multicam_premiere_xml from segment i on
RECURSIVE MulticamProgramTrack(_, _, _, _, _)
MulticamProgramTrack(segments, i, timeline_pos, all_video_files, folders) ==
    IF i > Len(segments) THEN <<>>
    ELSE LET seg == segments[i]
             k   == SourceFile(all_video_files, seg)
         IN  IF k = 0
             THEN MulticamProgramTrack(segments, i + 1, timeline_pos, all_video_files, folders)
             ELSE <<MulticamProgramClip(i, seg, timeline_pos, all_video_files[k].id,
                                        IndexOf(folders, seg.camera_angle))>>
                  \o MulticamProgramTrack(segments, i + 1, FAdd(timeline_pos, seg.duration),
                                          all_video_files, folders)

\* the counts edit_summary.txt states: every segment of the script is listed
_generate_multicam_summary(segments, folders) ==
    [total_segments |-> Len(segments), camera_angles |-> Len(folders)]

\* the logger.warning calls of the program pass (line 327), in order
MulticamWarnings(segments, all_video_files) ==
    LET missing == SelectSeq([i \in 1..Len(segments) |-> i],
                             LAMBDA i : SourceFile(all_video_files, segments[i]) = 0)
    IN  [k \in 1..Len(missing) |->
            [message |-> "Could not find source file for segment", segment |-> missing[k]]]

_generate_multicam_premiere_xml(segments, folders, files, sync_data, host) ==
    LET all_video_files == AllVideoFiles(folders, files)
    IN  [bin     |-> [k \in 1..Len(all_video_files) |->
                         BinEntry(all_video_files[k].id, all_video_files[k].dir,
                                  all_video_files[k].name, host)],
         tracks  |-> [a \in 1..Len(folders) |->
                         AngleTrack(folders[a],
                                    SortedByName(EntriesOfAngle(all_video_files, folders[a])),
                                    Frames(SyncOffset(sync_data, folders[a])))],
         program |-> MulticamProgramTrack(segments, 1, FZero, all_video_files, folders)]

(***************************************************************************)
(* resolve_builder.py.  The host binding is an outside collaborator: what  *)
(* matters of it is whether it loads and which step of the real build, if  *)
(* any, fails.                                                             *)
(***************************************************************************)
\* file://localhost/ + str(video_path).replace("\\", "/")
ResolvePathUrl(dir, name, host) ==
    UrlPrefix \o ReplaceBackslash(PathStr(Join(dir, name), host))

resolve_generate_premiere_xml(segments, video_dir, hash_order, host) ==
    LET video_files ==
            ListOfSet({segments[i].source_video : i \in 1..Len(segments)}, hash_order)
    IN  [bin     |-> [i \in 1..Len(video_files) |->
                        [id |-> i, name |-> video_files[i],
                         pathurl |-> ResolvePathUrl(video_dir, video_files[i], host)]],
         tracks  |-> <<>>,
         program |-> ProgramTrack(segments, 1, FZero, video_files)]

\* the steps of _build_real_project that can fail
ResolveFailures == {"none", "connect", "project", "timeline", "no_media", "import", "append"}

\* try: ... return True / except Exception: return _build_mock_project(...)
_build_real_project(failure) ==
    IF failure = "none" THEN [path |-> "real", outcome |-> "True"]
    ELSE [path |-> "mock", outcome |-> "True"]

_build_mock_project == [path |-> "mock", outcome |-> "True"]

build_resolve_project(available, failure) ==
    IF available THEN _build_real_project(failure) ELSE _build_mock_project

(***************************************************************************)
(* script_generator.py: the selection filter and the script it writes.     *)
(* A sentence is [text, start, end, duration]; a transcript file is        *)
(* [video_file, sentences]; the selector's reply is [kind,                  *)
(* selected_indices], kind "json" when json.loads accepted it.             *)
(***************************************************************************)
Raised == [raised |-> TRUE, segments |-> <<>>]

\* list[i] as Python evaluates it: a negative index counts from the end
PyIndex(list, i) == IF i < 0 THEN list[Len(list) + i + 1] ELSE list[i + 1]

RECURSIVE Flatten(_)
Flatten(lists) == IF lists = <<>> THEN <<>> ELSE Head(lists) \o Flatten(Tail(lists))

\* the sentences of one transcript file, tagged as lines 31-33 / 148-151 do
TaggedSentences(transcript, tag) ==
    [k \in 1..Len(transcript.sentences) |->
        [text         |-> transcript.sentences[k].text,
         start        |-> transcript.sentences[k].start,
         end          |-> transcript.sentences[k].end,
         duration     |-> transcript.sentences[k].duration,
         source_video |-> transcript.video_file,
         camera_angle |-> tag]]

LoadSentences(transcript_files) ==
    Flatten([f \in 1..Len(transcript_files) |-> TaggedSentences(transcript_files[f], "")])

valid_indices_NoLowerBound(selected_indices, all_sentences) ==
    SelectSeq(selected_indices, LAMBDA i : i < Len(all_sentences))

valid_indices(selected_indices, all_sentences) ==
    SelectSeq(selected_indices, LAMBDA i : 0 <= i /\ i < Len(all_sentences))

NoValidSentences_Never(valid) == FALSE

\* `if not valid_indices`
NoValidSentences(valid) == valid = <<>>

ScriptSegment(i, s) ==
    [sequence     |-> i,
     text         |-> s.text,
     start_time   |-> s.start,
     end_time     |-> s.end,
     duration     |-> s.duration,
     source_video |-> s.source_video]

generate_script(prompt_text, transcript_files, reply) ==
    LET all_sentences == LoadSentences(transcript_files)
        valid == valid_indices(reply.selected_indices, all_sentences)
    IN  IF prompt_text = "" THEN Raised
        ELSE IF all_sentences = <<>> THEN Raised
        ELSE IF reply.kind # "json" THEN Raised
        ELSE IF NoValidSentences(valid) THEN Raised
        ELSE [raised   |-> FALSE,
              segments |-> [i \in 1..Len(valid) |->
                              ScriptSegment(i, PyIndex(all_sentences, valid[i]))]]

angle_content(angle_names, angle_transcripts) ==
    [a \in SeqRange(angle_names) |->
        Flatten([f \in 1..Len(angle_transcripts[a]) |-> TaggedSentences(angle_transcripts[a][f], a)])]

\* the dict index_to_sentence as a sequence: key k is position k + 1
index_to_sentence(angle_names, angle_transcripts) ==
    Flatten([n \in 1..Len(angle_names) |-> angle_content(angle_names, angle_transcripts)[angle_names[n]]])

MulticamScriptSegment(i, s) ==
    [sequence     |-> i,
     text         |-> s.text,
     start_time   |-> s.start,
     end_time     |-> s.end,
     duration     |-> s.duration,
     source_video |-> s.source_video,
     camera_angle |-> s.camera_angle]

generate_multicam_script(prompt_text, angle_names, angle_transcripts, reply) ==
    LET index == index_to_sentence(angle_names, angle_transcripts)
        valid == SelectSeq(reply.selected_indices, LAMBDA i : i + 1 \in DOMAIN index)
    IN  IF prompt_text = "" THEN Raised
        ELSE IF index = <<>> THEN Raised
        ELSE IF reply.kind # "json" THEN Raised
        ELSE IF valid = <<>> THEN Raised
        ELSE [raised   |-> FALSE,
              segments |-> [i \in 1..Len(valid) |-> MulticamScriptSegment(i, index[valid[i] + 1])]]

(***************************************************************************)
(* State.                                                                  *)
(***************************************************************************)
VARIABLES
    tcFps,        \* frame rate handed to seconds_to_timecode
    tcInput,      \* [kind, k, seconds, timecode]: the value the run starts from
    tcString,     \* the current timecode string
    tcSeconds,    \* the current seconds value
    tcOps,        \* the conversions applied so far, in order
    camera_folders,     \* the angle names, in the order of the dict
    folder_files,       \* angle -> the file names in its folder
    probe,              \* angle -> what ffprobe answers for its reference file
    ffprobe_installed,  \* whether subprocess.run finds ffprobe
    sync_result,        \* outcome of get_multicam_sync_data
    xml_mode,           \* "single" or "multicam"
    spans,              \* per segment: start and length in 1/48 s, before division
    segments,           \* script["segments"]
    hash_order,         \* iteration order of str sets in the running interpreter
    xml_docs,           \* the project.xml contents written so far, in order
    output_files,       \* names of the files written into output_dir
    host,               \* "posix" or "windows": the path flavour of the machine
    warnings,           \* the WARNING records the builders logged, in order
    resolve_call,       \* how the call of build_resolve_project went
    pc,                 \* the step run_pipeline is at
    is_multicam,        \* run_pipeline's is_multicam
    prompt_text,        \* run_pipeline's prompt_text, stripped
    transcripts,        \* the transcript files of step 1 (per angle in multicam mode)
    transcript_dir,     \* the transcript files that lie in temp/transcripts
    gpt_response,       \* the selector's reply as parsed
    script_written,     \* this run wrote temp/script.json
    pipeline_result     \* what run_pipeline returned

tcVars == <<tcFps, tcInput, tcString, tcSeconds, tcOps>>

syncVars == <<camera_folders, folder_files, probe, ffprobe_installed, sync_result>>

xmlVars == <<xml_mode, spans, segments, hash_order, xml_docs, output_files, host, warnings,
             resolve_call>>

pipeVars == <<pc, is_multicam, prompt_text, transcripts, transcript_dir, gpt_response,
              script_written, pipeline_result>>

vars == <<tcVars, syncVars, xmlVars, pipeVars>>

TcIdle ==
    /\ tcFps = TimecodeFps
    /\ tcInput = [kind |-> "none", k |-> 0, seconds |-> FZero, timecode |-> NoneValue]
    /\ tcString = NoneValue
    /\ tcSeconds = FZero
    /\ tcOps = <<>>

NotCalled == [status |-> "not called", data |-> <<>>, offsets |-> <<>>]

SyncIdle ==
    /\ camera_folders = <<>>
    /\ folder_files = <<>>
    /\ probe = <<>>
    /\ ffprobe_installed = TRUE
    /\ sync_result = NotCalled

NoCall == [outcome |-> "not called", path |-> "none", importable |-> TRUE,
           available |-> FALSE, failure |-> "none"]

XmlIdle ==
    /\ xml_mode = "none"
    /\ spans = <<>>
    /\ segments = <<>>
    /\ hash_order = <<>>
    /\ xml_docs = <<>>
    /\ output_files = {}
    /\ host = "posix"
    /\ warnings = <<>>
    /\ resolve_call = NoCall

NotAsked == [kind |-> "not asked", selected_indices |-> <<>>]

PipeIdle ==
    /\ pc = "none"
    /\ is_multicam = FALSE
    /\ prompt_text = ""
    /\ transcripts = <<>>
    /\ transcript_dir = <<>>
    /\ gpt_response = NotAsked
    /\ script_written = FALSE
    /\ pipeline_result = "none"

(***************************************************************************)
(* Timecode conversions applied to drawn inputs.                           *)
(***************************************************************************)
MaxFrameK == 40
FpsSet == {24, 25, 30}

TimecodeInputs ==
    { Str(<<Format02d(h), Format02d(m), Format02d(sec), Format02d(f)>>) :
        h \in {0, 10}, m \in {0, 15}, sec \in {0, 1, 30}, f \in {0, 1, 12, 23} }
    \cup { NoneValue, EmptyStr,
           Str(<< <<"1", "0">>, <<"0", "0">>, <<"0", "0">> >>),
           Str(<< <<"1", "0">>, <<"0", "0">>, <<"0", "0">>, <<"x", "x">> >>),
           Str(<< <<"-", "0", "0">>, <<"0", "0">>, <<"0", "1">>, <<"0", "0">> >>) }

InitTimecode ==
    /\ tcFps \in FpsSet
    /\ \/ \E k \in 0..MaxFrameK :
            LET s == FDivInt(FFromInt(k), tcFps) IN
            /\ tcInput = [kind |-> "seconds", k |-> k, seconds |-> s, timecode |-> NoneValue]
            /\ tcSeconds = s
            /\ tcString = NoneValue
       \/ \E t \in TimecodeInputs :
            /\ tcInput = [kind |-> "timecode", k |-> 0, seconds |-> FZero, timecode |-> t]
            /\ tcSeconds = FZero
            /\ tcString = t
    /\ tcOps = <<>>
    /\ SyncIdle
    /\ XmlIdle
    /\ PipeIdle

SecondsToTimecode ==
    /\ \/ tcInput.kind = "seconds" /\ tcOps = <<>>
       \/ tcOps = <<"timecode_to_seconds">>
    /\ ~FLess(tcSeconds, FZero)
    /\ tcString' = seconds_to_timecode(tcSeconds, tcFps)
    /\ tcOps' = Append(tcOps, "seconds_to_timecode")
    /\ UNCHANGED <<tcFps, tcInput, tcSeconds, syncVars, xmlVars, pipeVars>>

TimecodeToSeconds ==
    /\ \/ tcInput.kind = "timecode" /\ tcOps = <<>>
       \/ tcOps = <<"seconds_to_timecode">>
    /\ tcSeconds' = timecode_to_seconds(tcString)
    /\ tcOps' = Append(tcOps, "timecode_to_seconds")
    /\ UNCHANGED <<tcFps, tcInput, tcString, syncVars, xmlVars, pipeVars>>

NextTimecode == SecondsToTimecode \/ TimecodeToSeconds

SpecTimecode == InitTimecode /\ [][NextTimecode]_vars

(***************************************************************************)
(* get_multicam_sync_data applied to drawn folders and ffprobe answers.    *)
(***************************************************************************)
MaxAngles == 2

AngleNames == <<"A", "B", "C", "D">>

File_a_mp4 == <<"a", ".", "m", "p", "4">>
File_b_MOV == <<"b", ".", "M", "O", "V">>
File_c_mkv == <<"c", ".", "m", "k", "v">>
File_notes_txt == <<"n", "o", "t", "e", "s", ".", "t", "x", "t">>
File_a_Mp4 == <<"a", ".", "M", "p", "4">>
File_Ba_mp4 == <<"B", "a", ".", "m", "p", "4">>

FolderChoices ==
    { {}, {File_notes_txt}, {File_c_mkv}, {File_a_mp4}, {File_b_MOV, File_a_mp4, File_notes_txt},
      {File_a_Mp4, File_b_MOV} }

TC_10_00_00_00 == Str(<< <<"1", "0">>, <<"0", "0">>, <<"0", "0">>, <<"0", "0">> >>)
TC_10_00_02_12 == Str(<< <<"1", "0">>, <<"0", "0">>, <<"0", "2">>, <<"1", "2">> >>)
TC_10_00_01_01 == Str(<< <<"1", "0">>, <<"0", "0">>, <<"0", "1">>, <<"0", "1">> >>)
TC_Negative == Str(<< <<"-", "0", "1">>, <<"0", "0">>, <<"0", "0">>, <<"0", "0">> >>)
TC_DropFrame == Str(<< <<"1", "0">>, <<"0", "0">>, <<"0", "0", ";", "0", "0">> >>)
CreationTime ==
    Str(<< <<"2", "0", "2", "4", "-", "0", "7", "-", "3", "0", "T", "1", "0">>,
           <<"1", "5">>,
           <<"3", "0", ".", "0", "0", "0", "0", "0", "0", "Z">> >>)
Garbage == Str(<< <<"x", "x">> >>)

ProbeProfiles ==
    { <<ProbeOut(TC_10_00_00_00), ProbeFail, ProbeFail>>,
      <<ProbeOut(TC_10_00_02_12), ProbeOut(TC_10_00_00_00), ProbeFail>>,
      <<ProbeOut(EmptyStr), ProbeOut(TC_10_00_01_01), ProbeOut(CreationTime)>>,
      <<ProbeFail, ProbeOut(NotAvailable), ProbeOut(CreationTime)>>,
      <<ProbeOut(EmptyStr), ProbeOut(EmptyStr), ProbeOut(Garbage)>>,
      <<ProbeFail, ProbeFail, ProbeFail>>,
      <<ProbeOut(TC_Negative), ProbeFail, ProbeFail>>,
      <<ProbeOut(TC_DropFrame), ProbeFail, ProbeFail>> }

NoProbe == <<ProbeFail, ProbeFail, ProbeFail>>

InitSync ==
    /\ TcIdle
    /\ \E n \in 1..MaxAngles : camera_folders = SubSeq(AngleNames, 1, n)
    /\ folder_files \in [SeqRange(camera_folders) -> FolderChoices]
    /\ probe \in [SeqRange(camera_folders) -> ProbeProfiles]
    /\ \A a \in SeqRange(camera_folders) : SyncCandidates(folder_files[a]) = {} => probe[a] = NoProbe
    /\ ffprobe_installed \in BOOLEAN
    /\ sync_result = NotCalled
    /\ XmlIdle
    /\ PipeIdle

GetMulticamSyncData ==
    /\ sync_result.status = "not called"
    /\ camera_folders # <<>>
    /\ sync_result' = get_multicam_sync_data(camera_folders, folder_files, probe, ffprobe_installed)
    /\ UNCHANGED <<tcVars, camera_folders, folder_files, probe, ffprobe_installed, xmlVars, pipeVars>>

NextSync == GetMulticamSyncData

SpecSync == InitSync /\ [][NextSync]_vars

(***************************************************************************)
(* build_xml_project and build_multicam_xml_project applied to drawn       *)
(* scripts.  Times reach the builders as the floats the transcription      *)
(* step wrote: start, end and duration = end - start                       *)
(* (transcription.py:401-403).                                             *)
(***************************************************************************)
MaxSegments == 3

TicksPerSecond == 48

\* [start, len] in 1/48 s; even numbers are whole frames at 24 fps
SpanChoices ==
    { [start |-> 0, len |-> 96], [start |-> 0, len |-> 168], [start |-> 0, len |-> 48],
      [start |-> 6, len |-> 2] }

MulticamSpanChoices == { [start |-> 3, len |-> 1], [start |-> 6, len |-> 2] }

Seconds(ticks) == FDivInt(FFromInt(ticks), TicksPerSecond)

Sentence(text, span) ==
    [text     |-> text,
     start    |-> Seconds(span.start),
     end      |-> Seconds(span.start + span.len),
     duration |-> FSub(Seconds(span.start + span.len), Seconds(span.start))]

Segment(i, span, source_video) ==
    ScriptSegment(i, TaggedSentences([video_file |-> source_video,
                                      sentences |-> <<Sentence(i, span)>>], "")[1])

MulticamSegment(i, span, source_video, camera_angle) ==
    MulticamScriptSegment(i, TaggedSentences([video_file |-> source_video,
                                              sentences |-> <<Sentence(i, span)>>], camera_angle)[1])

VideoNames == {File_a_mp4, File_b_MOV}

HashOrders == { <<File_a_mp4, File_b_MOV>>, <<File_b_MOV, File_a_mp4>> }

VideoDir ==
    [anchor |-> "", parts |-> << <<"i", "n", "p", "u", "t">>, <<"v", "i", "d", "e", "o", "s">> >>]

MulticamLayouts ==
    { [A |-> {File_a_mp4}, B |-> {File_a_mp4, File_b_MOV}],
      [A |-> {File_b_MOV, File_a_mp4, File_c_mkv, File_Ba_mp4}, B |-> {File_notes_txt}] }

SyncEntryWithOffset(offset) == [timecode |-> NoneValue, first_file |-> NoFile, offset |-> offset]

OutputFiles == {"project.json", "project.xml", "edit_summary.txt"}

MaxBuilds == 2

\* offsets calculate_sync_offsets returns for angle B when A is the anchor at
\* 10:00:00:00: B at 10:00:02:12, and B at 10:00:01:01
OneSecondOneFrame ==
    FSub(timecode_to_seconds(TC_10_00_01_01), timecode_to_seconds(TC_10_00_00_00))

SyncOffsetChoices == {TwoAndAHalf, OneSecondOneFrame}

Hosts == {"posix", "windows"}

InitXml ==
    /\ TcIdle
    /\ PipeIdle
    /\ ffprobe_installed = TRUE
    /\ hash_order \in HashOrders
    /\ xml_docs = <<>>
    /\ output_files = {}
    /\ warnings = <<>>
    /\ resolve_call = NoCall
    /\ host \in Hosts
    /\ \E n \in 1..MaxSegments :
         /\ host = "windows" => n = 1
         /\ \/ /\ xml_mode = "resolve"
               /\ camera_folders = <<>>
               /\ folder_files = <<>>
               /\ probe = <<>>
               /\ sync_result = NotCalled
               /\ spans \in [1..n -> MulticamSpanChoices]
               /\ \E sources \in [1..n -> VideoNames] :
                     segments = [i \in 1..n |-> Segment(i, spans[i], sources[i])]
            \/ /\ xml_mode = "single"
               /\ camera_folders = <<>>
               /\ folder_files = <<>>
               /\ probe = <<>>
               /\ sync_result = NotCalled
               /\ spans \in [1..n -> SpanChoices]
               /\ \E sources \in [1..n -> VideoNames] :
                     segments = [i \in 1..n |-> Segment(i, spans[i], sources[i])]
            \/ /\ xml_mode = "multicam"
               /\ camera_folders = <<"A", "B">>
               /\ folder_files \in MulticamLayouts
               /\ probe = [a \in {"A", "B"} |-> NoProbe]
               /\ hash_order = <<File_a_mp4, File_b_MOV>>
               /\ \E offset \in SyncOffsetChoices :
                     sync_result = [status |-> "returned",
                                    data |-> [a \in {"A", "B"} |->
                                                SyncEntryWithOffset(IF a = "A" THEN FZero ELSE offset)],
                                    offsets |-> [a \in {"A", "B"} |-> IF a = "A" THEN FZero ELSE offset]]
               /\ spans \in [1..n -> MulticamSpanChoices]
               /\ \E sources \in [1..n -> VideoNames], angles \in [1..n -> {"A", "B"}] :
                     segments = [i \in 1..n |-> MulticamSegment(i, spans[i], sources[i], angles[i])]

\* step 3 of run_pipeline (pc = "build") or a direct call (pc = "none")
BuildXmlProject ==
    /\ xml_mode = "single"
    /\ pc \in {"none", "build"}
    /\ Len(xml_docs) < MaxBuilds
    /\ xml_docs' = Append(xml_docs, _generate_premiere_xml(segments, VideoDir, hash_order, host))
    /\ output_files' = output_files \cup OutputFiles
    /\ pc' = IF pc = "build" THEN "done" ELSE pc
    /\ pipeline_result' = IF pc = "build" THEN "True" ELSE pipeline_result
    /\ UNCHANGED <<tcVars, syncVars, xml_mode, spans, segments, hash_order>>
    /\ UNCHANGED <<host, warnings, resolve_call>>
    /\ UNCHANGED <<is_multicam, prompt_text, transcripts, transcript_dir, gpt_response, script_written>>

BuildMulticamXmlProject ==
    /\ xml_mode = "multicam"
    /\ pc \in {"none", "build"}
    /\ Len(xml_docs) < MaxBuilds
    /\ xml_docs' = Append(xml_docs,
                          _generate_multicam_premiere_xml(segments, camera_folders, folder_files,
                                                          sync_result.data, host))
    /\ output_files' = output_files \cup OutputFiles
    /\ pc' = IF pc = "build" THEN "done" ELSE pc
    /\ pipeline_result' = IF pc = "build" THEN "True" ELSE pipeline_result
    /\ warnings' = warnings \o MulticamWarnings(segments, AllVideoFiles(camera_folders, folder_files))
    /\ UNCHANGED <<tcVars, syncVars, xml_mode, spans, segments, hash_order>>
    /\ UNCHANGED <<host, resolve_call>>
    /\ UNCHANGED <<is_multicam, prompt_text, transcripts, transcript_dir, gpt_response, script_written>>

\* build_resolve_project (resolve_builder.py:24-157).  The module holds a
\* backslash inside an f-string expression (line 198), which interpreters
\* before 3.12 reject when they compile the module.
BuildResolveProject ==
    /\ xml_mode = "resolve"
    /\ resolve_call.outcome = "not called"
    /\ \E importable, available \in BOOLEAN, failure \in ResolveFailures :
          /\ ~importable => ~available
          /\ ~available => failure = "none"
          /\ LET r == build_resolve_project(available, failure) IN
             IF ~importable
             THEN /\ resolve_call' = [outcome |-> "raised", path |-> "none", importable |-> FALSE,
                                      available |-> available, failure |-> failure]
                  /\ UNCHANGED <<xml_docs, output_files>>
             ELSE /\ resolve_call' = [outcome |-> r.outcome, path |-> r.path, importable |-> TRUE,
                                      available |-> available, failure |-> failure]
                  /\ IF r.path = "mock" /\ r.outcome = "True"
                     THEN /\ xml_docs' = Append(xml_docs,
                                                resolve_generate_premiere_xml(segments, VideoDir,
                                                                              hash_order, host))
                          /\ output_files' = output_files \cup OutputFiles
                     ELSE UNCHANGED <<xml_docs, output_files>>
    /\ UNCHANGED <<tcVars, syncVars, pipeVars, xml_mode, spans, segments, hash_order, host, warnings>>

\* the next serialization happens in a fresh interpreter, whose str hashes
\* are salted anew (PYTHONHASHSEED is random by default)
NewProcess ==
    /\ xml_mode = "single"
    /\ pc = "none"
    /\ Len(xml_docs) = 1
    /\ hash_order' \in HashOrders \ {hash_order}
    /\ UNCHANGED <<tcVars, syncVars, xml_mode, spans, segments, xml_docs, output_files, pipeVars>>
    /\ UNCHANGED <<host, warnings, resolve_call>>

NextXml == BuildXmlProject \/ BuildMulticamXmlProject \/ BuildResolveProject \/ NewProcess

SpecXml == InitXml /\ [][NextXml]_vars

(***************************************************************************)
(* run_pipeline, step by step.  Step 1 leaves transcript files, step 2     *)
(* asks the selector and writes temp/script.json, step 3 builds the        *)
(* project; any exception ends the run with False.                         *)
(***************************************************************************)
MaxSentences == 3
MaxSelected == 4

PoolSpans ==
    << [start |-> 0, len |-> 96], [start |-> 0, len |-> 168], [start |-> 0, len |-> 48],
       [start |-> 6, len |-> 2] >>

PoolSpan(text) == PoolSpans[((text - 1) % Len(PoolSpans)) + 1]

Transcript(video_file, first, last) ==
    [video_file |-> video_file,
     sentences  |-> [k \in 1..(last - first + 1) |-> Sentence(first + k - 1, PoolSpan(first + k - 1))]]

Min(a, b) == IF a < b THEN a ELSE b

\* n sentences spread over the transcripts of a.mp4 and b.MOV
TranscriptFiles(n) == << Transcript(File_a_mp4, 1, Min(n, 2)), Transcript(File_b_MOV, 3, n) >>

AngleTranscripts(n) ==
    [a \in {"A", "B"} |-> IF a = "A" THEN << Transcript(File_a_mp4, 1, Min(n, 2)) >>
                                      ELSE << Transcript(File_b_MOV, 3, n) >>]

NoTranscripts == [a \in {"A", "B"} |-> <<>>]

RECURSIVE SeqsUpTo(_, _)
SeqsUpTo(S, n) ==
    IF n = 0 THEN { <<>> }
    ELSE SeqsUpTo(S, n - 1) \cup { Append(q, x) : q \in { r \in SeqsUpTo(S, n - 1) : Len(r) = n - 1 }, x \in S }

\* what the selector may answer when n candidates were listed
Replies(n) ==
    { [kind |-> "json", selected_indices |-> q] : q \in SeqsUpTo(-1..n, MaxSelected) }
    \cup { [kind |-> "invalid", selected_indices |-> <<>>] }

\* output_file = output_path / f"{video_path.stem}.json": a transcript of the
\* same video replaces the file, any other file of the directory stays
WriteTranscripts(dir, files) ==
    SelectSeq(dir, LAMBDA t : \A k \in 1..Len(files) : files[k].video_file # t.video_file)
      \o files

\* temp/transcripts at the start of a run: empty, or as an earlier run on a
\* folder that held c.mkv left it
LeftoverTranscripts == { <<>>, << Transcript(File_c_mkv, 4, 4) >> }

PipelineLayout == [A |-> {File_a_mp4}, B |-> {File_a_mp4, File_b_MOV}]

Init ==
    /\ TcIdle
    /\ pc = "logging"
    /\ is_multicam \in BOOLEAN
    /\ prompt_text \in {"", "highlights"}
    /\ transcripts = <<>>
    /\ gpt_response = NotAsked
    /\ script_written = FALSE
    /\ pipeline_result = "running"
    /\ spans = <<>>
    /\ segments = <<>>
    /\ xml_docs = <<>>
    /\ output_files = {}
    /\ host = "posix"
    /\ warnings = <<>>
    /\ resolve_call = NoCall
    /\ sync_result = NotCalled
    /\ ffprobe_installed \in BOOLEAN
    /\ IF is_multicam
       THEN /\ xml_mode = "multicam"
            /\ transcript_dir = <<>>
            /\ hash_order = <<File_a_mp4, File_b_MOV>>
            /\ camera_folders = <<"A", "B">>
            /\ folder_files = PipelineLayout
            /\ probe \in [{"A", "B"} -> {<<ProbeOut(TC_10_00_00_00), ProbeFail, ProbeFail>>,
                                          <<ProbeOut(TC_10_00_02_12), ProbeFail, ProbeFail>>}]
       ELSE /\ xml_mode = "single"
            /\ transcript_dir \in LeftoverTranscripts
            /\ IF transcript_dir = <<>> THEN hash_order \in HashOrders
               ELSE hash_order = <<File_a_mp4, File_b_MOV, File_c_mkv>>
            /\ camera_folders = <<>>
            /\ folder_files = <<>>
            /\ probe = <<>>

Fail ==
    /\ pc' = "done"
    /\ pipeline_result' = "False"

\* pipeline.py:28 with setup_logging (13-22): the call stands before the
\* try block, so what it raises leaves run_pipeline
SetupLogging ==
    /\ pc = "logging"
    /\ \E log_dir_ok \in BOOLEAN :
          IF log_dir_ok
          THEN pc' = "mkdir" /\ UNCHANGED pipeline_result
          ELSE pc' = "done" /\ pipeline_result' = "raised"
    /\ UNCHANGED <<tcVars, syncVars, xmlVars>>
    /\ UNCHANGED <<is_multicam, prompt_text, transcripts, transcript_dir, gpt_response, script_written>>

\* pipeline.py:31-34
CreateDirectories ==
    /\ pc = "mkdir"
    /\ \E mkdir_ok \in BOOLEAN :
          IF mkdir_ok
          THEN pc' = "transcribe" /\ UNCHANGED pipeline_result
          ELSE Fail
    /\ UNCHANGED <<tcVars, syncVars, xmlVars>>
    /\ UNCHANGED <<is_multicam, prompt_text, transcripts, transcript_dir, gpt_response, script_written>>

\* a transcription step that goes on to script generation without looking
\* at the number of transcript files
TranscribeVideos_Unchecked ==
    /\ pc = "transcribe"
    /\ ~is_multicam
    /\ \E produced \in BOOLEAN, n \in 0..MaxSentences :
          /\ transcripts' = IF produced THEN TranscriptFiles(n) ELSE <<>>
          /\ transcript_dir' = WriteTranscripts(transcript_dir, transcripts')
          /\ pc' = "generate" /\ UNCHANGED pipeline_result
    /\ UNCHANGED <<tcVars, syncVars, xmlVars, is_multicam, prompt_text, gpt_response, script_written>>

\* pipeline.py:75-87
TranscribeVideos ==
    /\ pc = "transcribe"
    /\ ~is_multicam
    /\ \E produced \in BOOLEAN, n \in 0..MaxSentences :
          /\ transcripts' = IF produced THEN TranscriptFiles(n) ELSE <<>>
          /\ transcript_dir' = WriteTranscripts(transcript_dir, transcripts')
          /\ IF transcripts' = <<>> THEN Fail
             ELSE pc' = "generate" /\ UNCHANGED pipeline_result
    /\ UNCHANGED <<tcVars, syncVars, xmlVars, is_multicam, prompt_text, gpt_response, script_written>>

\* pipeline.py:43-72
TranscribeAngles ==
    /\ pc = "transcribe"
    /\ is_multicam
    /\ sync_result' = get_multicam_sync_data(camera_folders, folder_files, probe, ffprobe_installed)
    /\ IF sync_result'.status = "raised"
       THEN Fail /\ UNCHANGED transcripts
       ELSE \E produced \in BOOLEAN, n \in 0..MaxSentences :
              /\ transcripts' = IF produced THEN AngleTranscripts(n) ELSE NoTranscripts
              /\ IF \A a \in {"A", "B"} : transcripts'[a] = <<>> THEN Fail
                 ELSE pc' = "generate" /\ UNCHANGED pipeline_result
    /\ UNCHANGED <<tcVars, camera_folders, folder_files, probe, ffprobe_installed, xmlVars>>
    /\ UNCHANGED <<is_multicam, prompt_text, transcript_dir, gpt_response, script_written>>

\* pipeline.py:98-104 with script_generator.py:17-125
GenerateScript ==
    /\ pc = "generate"
    /\ ~is_multicam
    /\ \E reply \in Replies(Len(LoadSentences(transcript_dir))) :
         LET asked == prompt_text # "" /\ LoadSentences(transcript_dir) # <<>>
             out == generate_script(prompt_text, transcript_dir, reply)
         IN  /\ gpt_response' = IF asked THEN reply ELSE NotAsked
             /\ IF out.raised
                THEN Fail /\ UNCHANGED <<segments, spans, script_written>>
                ELSE /\ segments' = out.segments
                     /\ spans' = [i \in 1..Len(out.segments) |-> PoolSpan(out.segments[i].text)]
                     /\ script_written' = TRUE
                     /\ pc' = "build"
                     /\ UNCHANGED pipeline_result
    /\ UNCHANGED <<tcVars, syncVars, xml_mode, hash_order, xml_docs, output_files>>
    /\ UNCHANGED <<host, warnings, resolve_call>>
    /\ UNCHANGED <<is_multicam, prompt_text, transcripts, transcript_dir>>

\* pipeline.py:89-96 with script_generator.py:128-302
GenerateMulticamScript ==
    /\ pc = "generate"
    /\ is_multicam
    /\ \E reply \in Replies(Len(index_to_sentence(camera_folders, transcripts))) :
         LET asked == prompt_text # "" /\ index_to_sentence(camera_folders, transcripts) # <<>>
             out == generate_multicam_script(prompt_text, camera_folders, transcripts, reply)
         IN  /\ gpt_response' = IF asked THEN reply ELSE NotAsked
             /\ IF out.raised
                THEN Fail /\ UNCHANGED <<segments, spans, script_written>>
                ELSE /\ segments' = out.segments
                     /\ spans' = [i \in 1..Len(out.segments) |-> PoolSpan(out.segments[i].text)]
                     /\ script_written' = TRUE
                     /\ pc' = "build"
                     /\ UNCHANGED pipeline_result
    /\ UNCHANGED <<tcVars, syncVars, xml_mode, hash_order, xml_docs, output_files>>
    /\ UNCHANGED <<host, warnings, resolve_call>>
    /\ UNCHANGED <<is_multicam, prompt_text, transcripts, transcript_dir>>

Next ==
    \/ SetupLogging
    \/ CreateDirectories
    \/ TranscribeVideos
    \/ TranscribeAngles
    \/ GenerateScript
    \/ GenerateMulticamScript
    \/ BuildXmlProject
    \/ BuildMulticamXmlProject

Spec == Init /\ [][Next]_vars

(***************************************************************************)
(* Claims.                                                                 *)
(***************************************************************************)
\* |x - y| < 1/n, compared exactly
WithinOneOver(x, y, n) ==
    LET d == FExactSum(x, FNeg(y)) IN
    IF d.m = <<>> THEN TRUE
    ELSE IF d.e >= 0 THEN FALSE
    ELSE BNCmp(BNMulSmall(d.m, n), BNShl(<<1>>, -d.e)) < 0

\* C1: round trip.  For every frame rate fps and every frame-aligned
\* seconds value s = k/fps, timecode_to_seconds(seconds_to_timecode(s, fps))
\* differs from s by less than 1/fps.
C1_RoundTripWithinOneFrame ==
    (tcInput.kind = "seconds" /\ tcOps = <<"seconds_to_timecode", "timecode_to_seconds">>)
        => WithinOneOver(tcSeconds, tcInput.seconds, tcFps)


Angles == SeqRange(camera_folders)

\* the timecode get_multicam_sync_data hands to calculate_sync_offsets
AngleTimecode(a) == sync_result.data[a].timecode

WellFormed(tc) ==
    Truthy(tc) /\ Len(tc.parts) = 4 /\ \A i \in 1..4 : IntParses(tc.parts[i])

\* C2: offset anchoring.  For every non-empty map of angle -> timecode
\* (present, absent or malformed) the offsets calculate_sync_offsets returns
\* have minimum exactly 0.0, every offset is >= 0, and there is one entry per
\* input angle.
C2_OffsetsAnchoredAtZero ==
    sync_result.status = "returned" =>
        /\ DOMAIN sync_result.offsets = Angles
        /\ \A a \in Angles : ~FLess(sync_result.offsets[a], FZero)
        /\ \E a \in Angles : sync_result.offsets[a] = FZero

\* C2 witness: offsets were computed for a map that holds a present, an
\* absent or malformed, timecode and some offset is positive
C2_Witness ==
    /\ sync_result.status = "returned"
    /\ \E a, b \in Angles :
          /\ WellFormed(AngleTimecode(a))
          /\ ~WellFormed(AngleTimecode(b))
          /\ FLess(FZero, sync_result.offsets[a])


\* C6: offset computation.  When every angle has a well-formed timecode,
\* calculate_sync_offsets returns for each angle its timecode in seconds
\* minus the minimum timecode in seconds over all angles; a map of the two
\* timecodes 10:00:00:00 and 10:00:02:12 gives offsets 0.0 and 2.5.
C6_OffsetIsSecondsMinusEarliest ==
    (sync_result.status = "returned" /\ \A a \in Angles : WellFormed(AngleTimecode(a))) =>
        /\ \E b \in Angles :
              /\ \A c \in Angles : ~FLess(timecode_to_seconds(AngleTimecode(c)),
                                          timecode_to_seconds(AngleTimecode(b)))
              /\ \A a \in Angles :
                    sync_result.offsets[a] =
                        FSub(timecode_to_seconds(AngleTimecode(a)),
                             timecode_to_seconds(AngleTimecode(b)))
        /\ \A a, b \in Angles :
              (Angles = {a, b} /\ AngleTimecode(a) = TC_10_00_00_00
                  /\ AngleTimecode(b) = TC_10_00_02_12) =>
                 (sync_result.offsets[a] = FZero /\ sync_result.offsets[b] = TwoAndAHalf)

\* C6 witness: offsets were computed for two angles with timecodes
\* 10:00:00:00 and 10:00:02:12
C6_Witness ==
    /\ sync_result.status = "returned"
    /\ Len(camera_folders) = 2
    /\ AngleTimecode(camera_folders[1]) = TC_10_00_00_00
    /\ AngleTimecode(camera_folders[2]) = TC_10_00_02_12

DegradedEntry == [timecode |-> NoneValue, first_file |-> NoFile, offset |-> FZero]

\* C10: degraded angle.  An angle whose folder holds no candidate video file
\* gets the entry {timecode: None, first_file: None, offset: 0.0} in the
\* final result, the call does not abort because of it, and the result has
\* an entry for every angle of camera_folders.
C10_DegradedAngleGetsZeroOffset ==
    \A a \in Angles :
        SyncCandidates(folder_files[a]) = {} =>
            /\ sync_result.status = "raised" =>
                  (~ffprobe_installed /\ \E b \in Angles : SyncCandidates(folder_files[b]) # {})
            /\ sync_result.status = "returned" =>
                  (DOMAIN sync_result.data = Angles /\ sync_result.data[a] = DegradedEntry)


AllClips(doc) ==
    SeqRange(doc.program) \cup UNION { SeqRange(doc.tracks[t]) : t \in 1..Len(doc.tracks) }

\* C4: duration preservation.  For every clip item on any timeline track
\* (single-camera program track, multicam program track, multicam angle
\* tracks) out - in equals end - start and equals the <duration> field.
C4_DurationPreserved ==
    \A d \in 1..Len(xml_docs) : \A c \in AllClips(xml_docs[d]) :
        /\ c.out - c.in = c.end - c.start
        /\ c.out - c.in = c.duration

\* C4 witness: a multicam document with clips on an angle track and two on
\* the program track, the second placed after a span that is not a whole
\* number of frames
C4_Witness ==
    /\ xml_mode = "multicam"
    /\ xml_docs # <<>>
    /\ Len(xml_docs[1].program) >= 2
    /\ spans[1].len % 2 = 1
    /\ \E t \in 1..Len(xml_docs[1].tracks) : xml_docs[1].tracks[t] # <<>>


Contiguous(program) ==
    /\ program[1].start = 0
    /\ \A i \in 1..(Len(program) - 1) : program[i].end = program[i + 1].start

\* C3: program-track contiguity.  For every script with N segments the
\* program track written by either builder has exactly N clip items, the first
\* starts at frame 0, and the end frame of clip i is the start frame of clip
\* i+1 for every consecutive pair.
C3_ProgramTrackContiguous ==
    \A d \in 1..Len(xml_docs) :
        /\ Len(xml_docs[d].program) = Len(segments)
        /\ Contiguous(xml_docs[d].program)

\* C5: deterministic serialization.  Two serializations of the same segments
\* over the same footage, in one run or in two separate runs, give the same
\* document: same file ids, same media-bin order.
C5_SerializationDeterministic ==
    Len(xml_docs) = 2 => xml_docs[1] = xml_docs[2]

FrameAligned(span) == span.start % 2 = 0 /\ span.len % 2 = 0

RECURSIVE FramesBefore(_, _)
FramesBefore(sp, i) == IF i = 0 THEN 0 ELSE FramesBefore(sp, i - 1) + sp[i].len \div 2

ScenarioB == << [start |-> 0, len |-> 96], [start |-> 0, len |-> 168], [start |-> 0, len |-> 48] >>

\* C7: program-track placement.  For a single-camera script whose spans are
\* frame-aligned with durations d_1..d_N at 24 fps, clip i occupies frames
\* [24*(d_1+...+d_(i-1)), 24*(d_1+...+d_i)); durations [2.0, 3.5, 1.0] give
\* [0,48), [48,132), [132,156).
C7_ProgramTrackPlacement ==
    \A d \in 1..Len(xml_docs) :
        /\ (xml_mode = "single" /\ \A i \in 1..Len(spans) : FrameAligned(spans[i])) =>
              /\ Len(xml_docs[d].program) = Len(spans)
              /\ \A i \in 1..Len(spans) :
                    /\ xml_docs[d].program[i].start = FramesBefore(spans, i - 1)
                    /\ xml_docs[d].program[i].end = FramesBefore(spans, i)
        /\ (xml_mode = "single" /\ spans = ScenarioB) =>
              /\ xml_docs[d].program[1].start = 0   /\ xml_docs[d].program[1].end = 48
              /\ xml_docs[d].program[2].start = 48  /\ xml_docs[d].program[2].end = 132
              /\ xml_docs[d].program[3].start = 132 /\ xml_docs[d].program[3].end = 156


\* the candidates the selector was shown, in index order
Candidates ==
    IF is_multicam THEN index_to_sentence(camera_folders, transcripts)
    ELSE LoadSentences(transcript_dir)

ValidPositions ==
    { p \in 1..Len(gpt_response.selected_indices) :
        gpt_response.selected_indices[p] \in 0..(Len(Candidates) - 1) }

\* the position in selected_indices of the j-th valid entry
NthValid(j) ==
    CHOOSE p \in ValidPositions : Cardinality({ q \in ValidPositions : q <= p }) = j

\* C8: selection filtering.  In both generators the script's segments are
\* exactly the valid entries of selected_indices in the selector's order: an
\* out-of-range index is dropped without an error and without disturbing
\* the others, and the segments are numbered 1..N in that order.
C8_SelectionFiltered ==
    (gpt_response.kind = "json" /\ ValidPositions # {}) =>
        /\ script_written
        /\ Len(segments) = Cardinality(ValidPositions)
        /\ \A j \in 1..Len(segments) :
             LET s == Candidates[gpt_response.selected_indices[NthValid(j)] + 1]
             IN  /\ segments[j].sequence = j
                 /\ segments[j].text = s.text
                 /\ segments[j].start_time = s.start
                 /\ segments[j].end_time = s.end
                 /\ segments[j].duration = s.duration
                 /\ segments[j].source_video = s.source_video
                 /\ is_multicam => segments[j].camera_angle = s.camera_angle

\* C8 witness: one out-of-range index among three valid ones, the script
\* written with three segments
C8_Witness ==
    /\ script_written
    /\ Len(gpt_response.selected_indices) = 4
    /\ Cardinality(ValidPositions) = 3
    /\ 2 \notin ValidPositions
    /\ Len(segments) = 3

\* C9: an empty selection is fatal and writes nothing.  When no entry of
\* selected_indices is in range (or the list is empty) the generator raises
\* before temp/script.json is written, the XML build is never entered, so
\* none of project.json, project.xml, edit_summary.txt is written in the
\* run, and run_pipeline returns False.
C9_EmptySelectionWritesNothing ==
    (gpt_response.kind = "json" /\ ValidPositions = {}) =>
        /\ ~script_written
        /\ xml_docs = <<>>
        /\ output_files \cap OutputFiles = {}
        /\ pc = "done"
        /\ pipeline_result = "False"

\* C9 witness: a run that ended on a selection whose entries are all out of
\* range
C9_Witness ==
    /\ gpt_response.kind = "json"
    /\ Len(gpt_response.selected_indices) >= 2
    /\ ValidPositions = {}
    /\ Candidates # <<>>
    /\ pipeline_result = "False"


\* the angles whose entry carries a timecode that parses
AnglesWithTimecode == { a \in Angles : WellFormed(sync_result.data[a].timecode) }

\* C11: AngleSyncInfo invariant.  In every table get_multicam_sync_data
\* returns, also when some angle has no recoverable timecode, the angle with
\* the earliest reference timecode has offset 0 and every other angle that
\* has a timecode has offset = its own seconds minus the earliest seconds.
C11_EarliestTimecodeHasZeroOffset ==
    (sync_result.status = "returned" /\ AnglesWithTimecode # {}) =>
        LET earliest == FMin({ timecode_to_seconds(sync_result.data[a].timecode) :
                                 a \in AnglesWithTimecode })
        IN  \A a \in AnglesWithTimecode :
               sync_result.data[a].offset =
                   FSub(timecode_to_seconds(sync_result.data[a].timecode), earliest)


\* HH:MM:SS:FF, two digits each, 0 <= MM, SS < 60 and 0 <= FF < fps
WellFormedAt(tc, fps) ==
    /\ ~tc.none
    /\ Len(tc.parts) = 4
    /\ \A i \in 1..4 : Len(tc.parts[i]) = 2 /\ \A j \in 1..2 : IsDigit(tc.parts[i][j])
    /\ DigitsValue(tc.parts[2]) < 60
    /\ DigitsValue(tc.parts[3]) < 60
    /\ DigitsValue(tc.parts[4]) < fps

\* C12: left inverse.  For every frame rate fps and every well-formed
\* timecode tc = HH:MM:SS:FF with 0 <= MM, SS < 60 and 0 <= FF < fps,
\* seconds_to_timecode(timecode_to_seconds(tc), fps) is exactly tc.
C12_LeftInverse ==
    (/\ tcInput.kind = "timecode"
     /\ WellFormedAt(tcInput.timecode, tcFps)
     /\ tcOps = <<"timecode_to_seconds", "seconds_to_timecode">>)
        => tcString = tcInput.timecode

\* C13: a timecode that fails to parse is a value, not an exception.  For
\* every input that does not split on ':' into exactly four integer parts
\* (wrong count, non-integer part, None) timecode_to_seconds returns 0.0; for
\* every input that does, it returns H*3600 + M*60 + S + F/fps.
C13_ParseFailureIsZero ==
    (tcInput.kind = "timecode" /\ tcOps = <<"timecode_to_seconds">>) =>
        LET tc == tcInput.timecode IN
        IF tc.none \/ Len(tc.parts) # 4 \/ \E i \in 1..Len(tc.parts) : ~IntParses(tc.parts[i])
        THEN tcSeconds = FZero
        ELSE tcSeconds =
                FAdd(FFromInt(IntValue(tc.parts[1]) * 3600 + IntValue(tc.parts[2]) * 60
                                + IntValue(tc.parts[3])),
                     FDivInt(FFromInt(IntValue(tc.parts[4])), tcFps))


\* C14: pipeline exit contract.  Whatever step or collaborator fails
\* (logging setup, directory creation, sync, transcription, script
\* generation, XML build), run_pipeline returns True or False and lets no
\* exception reach the caller; it returns True only after the XML build
\* returned success.
C14_PipelineReturnsBoolean ==
    pc = "done" =>
        /\ pipeline_result \in {"True", "False"}
        /\ pipeline_result = "True" => (xml_docs # <<>> /\ OutputFiles \subseteq output_files)

\* C15: whenever the multicam build has reported success, the program track
\* of each project.xml holds as many clip items as edit_summary.txt counts
\* segments, or a warning about the mismatch of the two counts was emitted.
CountMismatchWarned ==
    \E k \in 1..Len(warnings) : warnings[k].message = "count mismatch"

C15_NoSilentPartialArtifact ==
    (xml_mode = "multicam" /\ pc \in {"none", "done"}) =>
        \A d \in 1..Len(xml_docs) :
            \/ Len(xml_docs[d].program)
                  = _generate_multicam_summary(segments, camera_folders).total_segments
            \/ CountMismatchWarned

\* C16: when the host binding is unavailable, or a step of the real build
\* fails, build_resolve_project takes the interchange-document path, writes
\* project.json, project.xml and edit_summary.txt, and returns True; nothing
\* is raised.
FallbackCase ==
    /\ xml_mode = "resolve"
    /\ resolve_call.outcome # "not called"
    /\ (~resolve_call.available \/ resolve_call.failure # "none")

C16_HostBindingFallback ==
    FallbackCase =>
        /\ resolve_call.outcome = "True"
        /\ resolve_call.path = "mock"
        /\ OutputFiles \subseteq output_files
        /\ Len(xml_docs) = 1

\* C17: every pathurl of every written document is file://localhost/
\* followed by the absolute path of the media file with each backslash
\* replaced by a forward slash, also for a relative footage directory.
MediaDir(doc, entry) ==
    IF xml_mode = "multicam"
    THEN FolderPath(camera_folders[
             CHOOSE a \in 1..Len(doc.tracks) :
                 \E c \in 1..Len(doc.tracks[a]) : doc.tracks[a][c].file = entry.id])
    ELSE VideoDir

AbsoluteUrl(doc, entry) ==
    UrlPrefix
      \o ReplaceBackslash(PathStr(Absolute(Join(MediaDir(doc, entry), entry.name), host), host))

C17_PathUrlAbsoluteForwardSlash ==
    \A d \in 1..Len(xml_docs) :
        \A k \in 1..Len(xml_docs[d].bin) :
            LET entry == xml_docs[d].bin[k] IN
            /\ entry.pathurl = AbsoluteUrl(xml_docs[d], entry)
            /\ \A j \in 1..Len(entry.pathurl) : entry.pathurl[j] # "\\"

\* round(x) for x >= 0: the nearest integer, a tie going to the even one
Half == FDivInt(FFromInt(1), 2)

NearestFrame(x) ==
    LET t == FTrunc(x)
        f == FSub(x, FFromInt(t))
    IN  IF FLess(f, Half) THEN t
        ELSE IF FLess(Half, f) THEN t + 1
        ELSE IF t % 2 = 0 THEN t ELSE t + 1

\* C18: frame quantization.  Every program-track clip has in = round(start
\* seconds * 24), out = round(end seconds * 24) and duration = out - in, for
\* every non-negative span, frame-aligned or not.
C18_FrameQuantization ==
    \A d \in 1..Len(xml_docs) :
        \A k \in 1..Len(xml_docs[d].program) :
            LET c   == xml_docs[d].program[k]
                seg == segments[c.id]
            IN  /\ c.in = NearestFrame(FMulInt(seg.start_time, FrameRate))
                /\ c.out = NearestFrame(FMulInt(seg.end_time, FrameRate))
                /\ c.duration = c.out - c.in

\* some video file of the segment's own angle has a key that contains the
\* segment's source_video
HasMatchingFile(seg) ==
    \E name \in GlobExtensions(folder_files[seg.camera_angle], XmlExtensions) :
        Contains(FileKey(seg.camera_angle, name), seg.source_video)

MatchedSegments ==
    SelectSeq([i \in 1..Len(segments) |-> i], LAMBDA i : HasMatchingFile(segments[i]))

\* C19: skip policy of the multicam program pass.  A span without a matching
\* file of its angle gives no clip and assembly goes on; every other span
\* gives exactly one clip, in script order; a skipped span does not advance
\* the cursor: the first clip starts at 0 and a clip that follows a skipped
\* span starts where the clip before it ended.
C19_SkipPolicy ==
    xml_mode = "multicam" =>
        \A d \in 1..Len(xml_docs) :
            LET program == xml_docs[d].program IN
            /\ [k \in 1..Len(program) |-> program[k].id] = MatchedSegments
            /\ \A k \in 1..Len(program) :
                  IF k = 1 THEN program[k].start = 0
                  ELSE program[k].id > program[k - 1].id + 1
                         => program[k].start = program[k - 1].end

\* the 1-based position of an angle in camera_folders
AnglePosition(angle_name) ==
    CHOOSE a \in 1..Len(camera_folders) : camera_folders[a] = angle_name

\* C20: source-track pointer.  The "Multicam Source" sequence has one track
\* per angle of camera_folders, in that order, also for an angle without
\* files; every program-track clip carries as trackindex the 1-based position
\* of its segment's camera_angle, and the file it references is a file of
\* that angle's track.
C20_SourceTrackPointer ==
    xml_mode = "multicam" =>
        \A d \in 1..Len(xml_docs) :
            LET doc == xml_docs[d] IN
            /\ Len(doc.tracks) = Len(camera_folders)
            /\ \A a \in 1..Len(camera_folders) :
                  \A j \in 1..Len(doc.tracks[a]) :
                      doc.tracks[a][j].name \in folder_files[camera_folders[a]]
            /\ \A k \in 1..Len(doc.program) :
                  LET c == doc.program[k] IN
                  /\ c.trackindex = AnglePosition(segments[c.id].camera_angle)
                  /\ \E j \in 1..Len(doc.tracks[c.trackindex]) :
                        doc.tracks[c.trackindex][j].file = c.file

\* a written multicam document whose program track has clips of both
\* angles and whose script also named a file its angle does not have
C20_Witness ==
    /\ xml_mode = "multicam"
    /\ Len(xml_docs) >= 1
    /\ \E k, j \in 1..Len(xml_docs[1].program) :
          /\ xml_docs[1].program[k].trackindex = 1
          /\ xml_docs[1].program[j].trackindex = 2
    /\ Len(xml_docs[1].program) < Len(segments)

\* C21: source-track pass.  On the track of each angle the first clip starts
\* at frame round(offset seconds * 24) of the angle, the angle's files lie in
\* name order, and the k-th clip (k from 0) occupies
\* [first + k * 72000, first + (k + 1) * 72000) with in = 0 and out = 72000.
C21_SourceTrackPass ==
    xml_mode = "multicam" =>
        \A d \in 1..Len(xml_docs) : \A a \in 1..Len(xml_docs[d].tracks) :
            LET track == xml_docs[d].tracks[a]
                first == NearestFrame(FMulInt(sync_result.data[camera_folders[a]].offset, FrameRate))
            IN  \A k \in 1..Len(track) :
                    /\ track[k].start = first + (k - 1) * PlaceholderFrames
                    /\ track[k].end = first + k * PlaceholderFrames
                    /\ track[k].in = 0
                    /\ track[k].out = PlaceholderFrames
                    /\ k > 1 => LexLess(track[k - 1].name, track[k].name)

\* the extension of the name, compared without regard to case, is one of
\* the allow-list of the Sync Coordinator
AllowedIgnoringCase(name) ==
    \E i \in 1..Len(SyncExtensions) :
        /\ Len(name) >= Len(SyncExtensions[i])
        /\ Upper(SubSeq(name, Len(name) - Len(SyncExtensions[i]) + 1, Len(name)))
             = Upper(SyncExtensions[i])

\* C22: in the returned table the reference file of every angle is the
\* lexicographically first of the folder's files whose extension is in the
\* allow-list when compared case-insensitively, and an angle has no
\* reference file exactly when its folder has no such file.
C22_CaseInsensitiveAllowList ==
    sync_result.status = "returned" =>
        \A a \in Angles :
            LET candidates == { f \in folder_files[a] : AllowedIgnoringCase(f) }
                first_file == sync_result.data[a].first_file
            IN  IF candidates = {} THEN first_file = NoFile
                ELSE /\ first_file \in candidates
                     /\ \A f \in candidates \ {first_file} : LexLess(first_file, f)

\* the names on the track of the a-th angle of a written document
TrackFiles(doc, a) == { doc.tracks[a][k].name : k \in 1..Len(doc.tracks[a]) }

\* C23: for every angle the files on the angle's track of the reference
\* sequence are the candidate files of the Sync Coordinator for that angle;
\* so the sync reference file is one of the track files, and the angle has
\* no sync reference exactly when its track is empty.
C23_SameCandidateSet ==
    xml_mode = "multicam" =>
        \A d \in 1..Len(xml_docs) : \A a \in 1..Len(camera_folders) :
            LET files == folder_files[camera_folders[a]]
                entry == SyncEntry(files, probe[camera_folders[a]], ffprobe_installed).entry
                track == TrackFiles(xml_docs[d], a)
            IN  /\ track = SyncCandidates(files)
                /\ entry.first_file # NoFile => entry.first_file \in track
                /\ entry.first_file = NoFile <=> track = {}

\* a strategy yields a value: the probe exits with 0 and prints a text that
\* is neither empty nor N/A
Yields(profile, i) ==
    ~profile[i].fail /\ profile[i].out # EmptyStr /\ profile[i].out # NotAvailable

\* the first strategy that yields a value, 0 when none does
FirstYielding(profile) ==
    IF \E i \in 1..3 : Yields(profile, i)
    THEN CHOOSE i \in 1..3 : Yields(profile, i) /\ \A j \in 1..(i - 1) : ~Yields(profile, j)
    ELSE 0

\* C24: timecode acquisition order.  get_video_timecode tries the stream
\* tag, the container tag and the creation time in this order, returns the
\* value of the first strategy that yields one and tries none after it, puts
\* only a value of the third strategy through creation_time_to_timecode, and
\* returns None when all three yield nothing or fail; it raises nothing.
C24_AcquisitionOrder ==
    sync_result.status # "not called" =>
        \A a \in Angles :
            SyncCandidates(folder_files[a]) # {} =>
                LET call  == get_video_timecode(probe[a], ffprobe_installed)
                    first == FirstYielding(probe[a])
                IN  /\ ~call.raised
                    /\ call.tried = IF first = 0 THEN 3 ELSE first
                    /\ call.value = IF first = 0 THEN NoneValue
                                    ELSE IF first = 3
                                         THEN creation_time_to_timecode(probe[a][3].out)
                                         ELSE probe[a][first].out
                    /\ sync_result.status = "returned"
                    /\ sync_result.data[a].timecode = call.value

\* C25: per-angle failure isolation.  Whatever the probe does for the
\* reference file of an angle (non-zero exit, tool missing, unusable
\* output), get_multicam_sync_data raises nothing and returns an entry for
\* every angle; an angle none of whose probes yields a value has timecode
\* None, and every other angle keeps the timecode its own probes yield.
C25_PerAngleFailureIsolation ==
    sync_result.status # "not called" =>
        /\ sync_result.status = "returned"
        /\ DOMAIN sync_result.data = Angles
        /\ \A a \in Angles :
              SyncCandidates(folder_files[a]) # {} =>
                  IF FirstYielding(probe[a]) = 0
                  THEN sync_result.data[a].timecode = NoneValue
                  ELSE sync_result.data[a].timecode # NoneValue

\* transcription has produced no transcript file (multicam: over all angles)
NoTranscriptFiles ==
    \/ DOMAIN transcripts = {}
    \/ is_multicam /\ \A a \in DOMAIN transcripts : transcripts[a] = <<>>

\* the successions of steps of one run
StepOrder ==
    { <<"logging", "mkdir">>, <<"mkdir", "transcribe">>, <<"transcribe", "generate">>,
      <<"generate", "build">>, <<"build", "done">>,
      <<"logging", "done">>, <<"mkdir", "done">>, <<"transcribe", "done">>, <<"generate", "done">> }

StepsInOrder ==
    /\ (pc \in {"generate", "build"} \/ script_written \/ gpt_response # NotAsked)
          => ~NoTranscriptFiles
    /\ (pc = "build" \/ xml_docs # <<>>) => script_written
    /\ (is_multicam /\ (pc \in {"generate", "build"} \/ script_written))
          => sync_result.status = "returned"
    /\ (~is_multicam \/ pc \in {"logging", "mkdir", "transcribe"})
          => (sync_result.status = "not called" \/ pc = "done")
    /\ is_multicam =>
          \A d \in 1..Len(xml_docs) : \A a \in 1..Len(camera_folders) :
              \A k \in 1..Len(xml_docs[d].tracks[a]) :
                  xml_docs[d].tracks[a][k].start
                    = Frames(sync_result.data[camera_folders[a]].offset)
                        + (k - 1) * PlaceholderFrames

\* C26: pipeline step ordering.  The steps of a run follow each other as
\* sync (multicam only) and transcription, script generation, XML build;
\* script generation is not started without a transcript file, the build is
\* not started without a written script, and the sync table the build uses
\* is the one computed at the start of the run, which no later step changes.
C26_PipelineStepOrdering ==
    /\ []StepsInOrder
    /\ [][/\ pc' # pc => <<pc, pc'>> \in StepOrder
          /\ sync_result.status = "returned" => sync_result' = sync_result]_vars

\* a multicam run that went through every step and reported success
C26_Witness ==
    /\ is_multicam
    /\ pc = "done"
    /\ pipeline_result = "True"
    /\ sync_result.status = "returned"
    /\ xml_docs # <<>>

\* C27: referential integrity.  In every document of the single-camera and
\* multicam serializers the file ids of the media-bin entries are pairwise
\* distinct and every file id a clip item refers to, on the program track or
\* on an angle track, is the id of exactly one bin entry; in single-camera
\* mode the bin has exactly one entry per distinct source_video.
C27_ReferentialIntegrity ==
    xml_mode \in {"single", "multicam"} =>
        \A d \in 1..Len(xml_docs) :
            LET doc == xml_docs[d]
                bin == doc.bin
            IN  /\ \A i, j \in 1..Len(bin) : bin[i].id = bin[j].id => i = j
                /\ \A c \in AllClips(doc) :
                      Cardinality({ k \in 1..Len(bin) : bin[k].id = c.file }) = 1
                /\ xml_mode = "single" =>
                      /\ { bin[k].name : k \in 1..Len(bin) }
                            = { segments[i].source_video : i \in 1..Len(segments) }
                      /\ \A i, j \in 1..Len(bin) : bin[i].name = bin[j].name => i = j

\* a single-camera document of three clips over two source videos
C27_Witness ==
    /\ xml_mode = "single"
    /\ Len(xml_docs) >= 1
    /\ Len(xml_docs[1].bin) = 2
    /\ Len(xml_docs[1].program) = 3

\* C28: file resolution in the multicam program pass.  For every segment
\* whose angle folder holds a video file named exactly source_video, the
\* program track has the segment's clip and the clip refers to that file of
\* that angle: the bin entry of its file id has the name source_video and
\* lies on the track of the segment's angle.
C28_FileResolution ==
    xml_mode = "multicam" =>
        \A d \in 1..Len(xml_docs) : \A i \in 1..Len(segments) :
            LET doc == xml_docs[d]
                seg == segments[i]
            IN  seg.source_video \in GlobExtensions(folder_files[seg.camera_angle], XmlExtensions) =>
                    \E k \in 1..Len(doc.program) :
                        LET c == doc.program[k]
                            track == doc.tracks[AnglePosition(seg.camera_angle)]
                        IN  /\ c.id = i
                            /\ \E b \in 1..Len(doc.bin) :
                                  doc.bin[b].id = c.file /\ doc.bin[b].name = seg.source_video
                            /\ \E j \in 1..Len(track) : track[j].file = c.file

\* the videos step 1 of this run transcribed from its input folder
TranscribedVideos == { transcripts[k].video_file : k \in 1..Len(transcripts) }

\* C29: run isolation.  In a single-camera run that shares temp/transcripts
\* with earlier runs, every sentence offered to the selector and every
\* segment of the written script has as source_video a video this run
\* transcribed from its own input folder.
C29_RunIsolation ==
    ~is_multicam =>
        /\ gpt_response # NotAsked =>
              \A k \in 1..Len(Candidates) : Candidates[k].source_video \in TranscribedVideos
        /\ script_written =>
              \A i \in 1..Len(segments) : segments[i].source_video \in TranscribedVideos

\* f"{pos:5.1f}" for pos >= 0: the tenths of the decimal printed, the exact
\* value of the float rounded to one decimal, a tie going to the even digit
Format1f(x) ==
    LET n == BNMulSmall(x.m, 10)
    IN  IF x.e >= 0 THEN BNToNat(BNShl(n, x.e))
        ELSE LET q    == BNToNat(BNShr(n, -x.e))
                 r    == BNLow(n, -x.e)
                 half == BNShl(BNFromNat(1), -x.e - 1)
                 c    == BNCmp(r, half)
             IN  IF c > 0 \/ (c = 0 /\ q % 2 = 1) THEN q + 1 ELSE q

\* the timeline lines of edit_summary.txt from segment i on: both builders
\* run the same loop, pos = 0 and pos += seg["duration"] after every segment
RECURSIVE SummaryLines(_, _, _)
SummaryLines(segments_, i, pos) ==
    IF i > Len(segments_) THEN <<>>
    ELSE <<[index |-> i, pos |-> pos, printed |-> Format1f(pos),
            source |-> segments_[i].source_video]>>
         \o SummaryLines(segments_, i + 1, FAdd(pos, segments_[i].duration))

\* the frame at 24 fps of an offset printed in tenths of a second
PrintedFrames(tenths) == (tenths * FrameRate) \div 10

\* C30: the summary agrees with the document.  For every clip on the program
\* track of project.xml, the running start offset printed on the line of its
\* segment in edit_summary.txt, converted to frames at 24 fps, is the clip's
\* start frame, in single-camera and in multicam mode, skipped spans included.
C30_SummaryAgreesWithDocument ==
    xml_mode \in {"single", "multicam"} =>
        \A d \in 1..Len(xml_docs) :
            LET program == xml_docs[d].program
                summary == SummaryLines(segments, 1, FZero)
            IN  \A k \in 1..Len(program) :
                    PrintedFrames(summary[program[k].id].printed) = program[k].start
====
